---- MODULE Spec2Model ----
(***************************************************************************)
(* A model of src/extract_author_info.py: one run of the script, from      *)
(* argument parsing to the optional Zenodo submission.                     *)
(*                                                                         *)
(* Conventions.                                                            *)
(*   - A numeric spreadsheet cell is a sequence of length <= 1: <<>> is an  *)
(*     empty cell (pandas reads it as NaN), <<n>> holds the number n.       *)
(*   - A text cell is a string; NaNStr stands for an empty text cell.       *)
(*   - A first name is the sequence of its characters, so that             *)
(*     first_name[0] can be taken; <<>> stands for an empty cell.           *)
(*   - Output text is a sequence of tokens; joining inserts separator      *)
(*     tokens and concatenation is \o.                                     *)
(***************************************************************************)
EXTENDS Integers, Sequences, FiniteSets, TLC

VARIABLES
    pc,                 \* position of the run in the script
    error,              \* the exception that ended the run, NoError otherwise
    disk,               \* data files present on disk
    args,               \* self.args, the parsed command line
    submission,         \* self.submission
    data_file_path_list, \* self.data_file_path_list
    meta_title,         \* self.meta_title
    meta_description,   \* self.meta_description
    access_token,       \* self.access_token
    references,         \* self.references
    template_rows,      \* the rows read from the 'Template' sheet
    author_info_df,     \* self.author_info_df: author key -> master row
    sheet_rows,         \* the rows read from the target sheet
    df,                 \* the filtered membership table of _make_author_order
    cat,                \* position of the loop over self.author_categories
    author_order_list,  \* the local author_order_list of _make_author_order
    author_order,       \* self.author_order
    affiliation_list,   \* self.affiliation_list
    affil_str_to_affil_num_dict,
    affil_num_to_affil_str_dict,
    author_to_affil_num_list_dict,
    creator_array,      \* self.creator_array
    files_written,      \* the output files written, in order: [name, content]
    requests,           \* the remote calls issued, in order, with their outcome
    deposition,         \* bucket_url and deposition_id of the created deposition
    upload_i,           \* position of the loop over the files to upload
    reported,           \* the success report with the review URL was printed
    affil_num,          \* the number passed to _superscript by the call observed
    sup_num             \* the text that call of _superscript returned

argVars == <<args, submission, data_file_path_list, meta_title, meta_description,
             access_token, references>>
masterVars == <<template_rows, author_info_df>>
orderVars == <<sheet_rows, df, cat, author_order_list, author_order>>
affilVars == <<affiliation_list, affil_str_to_affil_num_dict,
               affil_num_to_affil_str_dict, author_to_affil_num_list_dict>>
outVars == <<creator_array, files_written>>
remoteVars == <<requests, deposition, upload_i, reported>>
supVars == <<affil_num, sup_num>>

vars == <<pc, error, disk, argVars, masterVars, orderVars, affilVars, outVars,
          remoteVars, supVars>>

(***************************************************************************)
(* Bounds of the model.                                                    *)
(***************************************************************************)
\* rows of the membership sheet when its weights are explored
MaxRows == 3
\* rows of the master sheet when its affiliations are explored
MaxTemplateRows == 3
\* rows of either sheet when the whole run is explored
MaxSmallRows == 2
\* data file paths given on the command line
MaxFiles == 2
\* the largest affiliation number passed to _superscript on its own
MaxNumber == 120

Min(a, b) == IF a < b THEN a ELSE b

Range(s) == {s[i] : i \in 1..Len(s)}

NaNStr == "nan"

NoError == [type |-> "none", where |-> "", files |-> <<>>]

Raise(type, where) == [type |-> type, where |-> where, files |-> <<>>]

(***************************************************************************)
(* The command line and the disk.                                          *)
(***************************************************************************)
\* an option that was not passed (argparse leaves it None)
NoneArg == "<None>"

\* `not x` of Python for an optional string
Falsy(x) == x \in {NoneArg, ""}

\* a path is the sequence of its components
PathA == <<"data", "a.txt">>
PathB == <<"b.txt">>
DataPaths == {PathA, PathB}

\* what is on disk besides the data files, the same in every run
ExistingDirs == {"out"}
ExistingFiles == {"desc.txt", "token.txt", "refs.txt"}
DescriptionFileLines == <<"line one", "line two">>
ReferenceFileLines == <<"ref one", "ref two">>

\* --data_file_paths after split(','): <<>> when the option is absent
PathLists == UNION {[1..k -> DataPaths] : k \in 0..MaxFiles}

\* the submission-only options: one complete set, one that reads its
\* description and references from files, and one set per missing piece
SubmissionOptions ==
    { [meta_title |-> "Title", meta_description |-> "A description",
       access_token_path |-> "token.txt", references |-> NoneArg],
      [meta_title |-> "Title", meta_description |-> "desc.txt",
       access_token_path |-> "token.txt", references |-> "refs.txt"],
      [meta_title |-> NoneArg, meta_description |-> "A description",
       access_token_path |-> "token.txt", references |-> NoneArg],
      [meta_title |-> "Title", meta_description |-> NoneArg,
       access_token_path |-> "token.txt", references |-> NoneArg],
      [meta_title |-> "Title", meta_description |-> "A description",
       access_token_path |-> NoneArg, references |-> NoneArg],
      [meta_title |-> "Title", meta_description |-> "A description",
       access_token_path |-> "token.txt", references |-> "norefs.txt"] }

NoSubmissionOptions ==
    [meta_title |-> NoneArg, meta_description |-> NoneArg,
     access_token_path |-> NoneArg, references |-> NoneArg]

MakeArgs(dir, sub, paths, o) ==
    [output_dir_path |-> dir, submission |-> sub, data_file_paths |-> paths,
     meta_title |-> o.meta_title, meta_description |-> o.meta_description,
     access_token_path |-> o.access_token_path, references |-> o.references]

ArgsSubmission ==
    {MakeArgs(d, TRUE, l, o) : d \in {"out", "nodir"}, l \in PathLists,
                               o \in SubmissionOptions}

ArgsNoSubmission ==
    {MakeArgs(d, FALSE, l, NoSubmissionOptions) :
        d \in {"out", "nodir"}, l \in {<<>>, <<PathB>>}}

ArgsAll == ArgsSubmission \cup ArgsNoSubmission

\* a run without --submission into an existing directory
ArgsPlain == {MakeArgs("out", FALSE, <<>>, NoSubmissionOptions)}

EmptyArgs == MakeArgs("", FALSE, <<>>, NoSubmissionOptions)

\* ntpath.basename: the last component of the path
Basename(p) == IF Len(p) = 0 THEN "" ELSE p[Len(p)]

\* the check that stops at the first path that is no file
NoFileFirstOnly(paths, onDisk) ==
    LET missing == SelectSeq(paths, LAMBDA p : p \notin onDisk)
    IN IF missing = <<>> THEN <<>> ELSE <<missing[1]>>

\* _get_and_check_datafile_paths: the paths of the list that are no file
NoFile(paths, onDisk) == SelectSeq(paths, LAMBDA p : p \notin onDisk)

(***************************************************************************)
(* Authors and the rows of the two sheets.                                 *)
(***************************************************************************)
SmithJohn == [last |-> "Smith", first |-> <<"J", "o", "h", "n">>, initials |-> "J."]
SmithJane == [last |-> "Smith", first |-> <<"J", "a", "n", "e">>, initials |-> "J."]
DoeAlice == [last |-> "Doe", first |-> <<"A", "l", "i", "c", "e">>, initials |-> "A."]
LeeKim == [last |-> "Lee", first |-> <<"K", "i", "m">>, initials |-> "K."]
PogoreutzClaudia ==
    [last |-> "Pogoreutz", first |-> <<"C", "l", "a", "u", "d", "i", "a">>,
     initials |-> "C."]

\* the authors of row 1, 2, ... of a sheet whose rows have distinct authors
PersonAt == <<SmithJohn, DoeAlice, LeeKim, PogoreutzClaudia>>

\* index key of a row: last_name + first_name[0]
AuthorKey(last, first) == last \o first[1]

\* a run whose uniqueness assertion is not evaluated
KeysUniqueUnchecked(name_index) == TRUE

\* len(name_index) == len(set(name_index))
KeysUnique(name_index) == Len(name_index) = Cardinality(Range(name_index))

NameIndex(rows) == [i \in 1..Len(rows) |-> AuthorKey(rows[i].last, rows[i].first)]

(***************************************************************************)
(* The master sheet 'Template'.                                            *)
(***************************************************************************)
TemplateRow(p, affiliation, orcid) ==
    [last |-> p.last, first |-> p.first, initials |-> p.initials,
     affiliation |-> affiliation, ORCID |-> orcid]

\* a row whose cells are all empty
EmptyTemplateRow ==
    [last |-> NaNStr, first |-> <<>>, initials |-> NaNStr,
     affiliation |-> NaNStr, ORCID |-> NaNStr]

\* dropna(axis='index', how='all')
DropNaTemplate(rows) == SelectSeq(rows, LAMBDA r : r # EmptyTemplateRow)

PogoreutzAffiliation ==
    "Department of Biology, University of Konstanz, 78457 Konstanz, Germany"

\* df.at[key, 'affiliation'] = value: sets the cell, and enlarges the frame by
\* a row of empty cells when the key is new
SetAffiliation(frame, key, value) ==
    [k \in DOMAIN frame \cup {key} |->
        IF k = key
        THEN IF key \in DOMAIN frame
             THEN [frame[key] EXCEPT !.affiliation = value]
             ELSE [EmptyTemplateRow EXCEPT !.affiliation = value]
        ELSE frame[k]]

\* df.loc[key] = row: replaces the row, or appends it when the key is new
SetRow(frame, key, row) ==
    [k \in DOMAIN frame \cup {key} |-> IF k = key THEN row ELSE frame[k]]

\* the frame indexed by name_index (the keys are unique here)
IndexBy(rows, name_index) ==
    [k \in Range(name_index) |->
        rows[CHOOSE i \in 1..Len(rows) : name_index[i] = k]]

\* the two corrections applied after the load
ApplyPatches(frame) ==
    SetRow(SetAffiliation(frame, "PogoreutzC", PogoreutzAffiliation),
           "ClayssenQ",
           [last |-> "Clayssen", first |-> <<"Q", "u", "e", "n", "t", "i", "n">>,
            initials |-> "C.", affiliation |-> "not-provided",
            ORCID |-> "not-provided"])

EmptyFrame == [k \in {} |-> EmptyTemplateRow]


(***************************************************************************)
(* The membership sheet and the author categories.                         *)
(***************************************************************************)
author_categories ==
    <<"First author(s)", "Contributing authors list #1",
      "Contributing authors list #2", "Consortium Coordinators",
      "Scientific Directors", "Contributing authors list #3">>

Categories == Range(author_categories)

\* the two categories the ordering loop treats apart
OverrideCategories == {"Scientific Directors", "Contributing authors list #3"}

\* the weights of a row, from its six cells in the order of author_categories
Weights(t) ==
    [c \in Categories |-> t[CHOOSE i \in 1..Len(author_categories) :
                                author_categories[i] = c]]

Pattern(t, sum) == [w |-> Weights(t), sum |-> sum]

\* the weights and sum of a membership row, one per case of the ordering:
\* each ordinary category alone, two ordinary categories, an override category
\* alone or with an ordinary one, both override categories, a positive sum with
\* no category, a sum of zero, and empty weight cells
WeightPatterns ==
    { Pattern(<< <<1>>, <<0>>, <<0>>, <<0>>, <<0>>, <<0>> >>, <<1>>),
      Pattern(<< <<0>>, <<1>>, <<0>>, <<0>>, <<0>>, <<0>> >>, <<1>>),
      Pattern(<< <<0>>, <<0>>, <<1>>, <<0>>, <<0>>, <<0>> >>, <<1>>),
      Pattern(<< <<0>>, <<0>>, <<0>>, <<1>>, <<0>>, <<0>> >>, <<1>>),
      Pattern(<< <<1>>, <<1>>, <<0>>, <<0>>, <<0>>, <<0>> >>, <<2>>),
      Pattern(<< <<0>>, <<0>>, <<1>>, <<1>>, <<0>>, <<0>> >>, <<2>>),
      Pattern(<< <<1>>, <<0>>, <<0>>, <<1>>, <<0>>, <<0>> >>, <<2>>),
      Pattern(<< <<0>>, <<0>>, <<0>>, <<0>>, <<1>>, <<0>> >>, <<1>>),
      Pattern(<< <<0>>, <<0>>, <<0>>, <<0>>, <<0>>, <<1>> >>, <<1>>),
      Pattern(<< <<1>>, <<0>>, <<0>>, <<0>>, <<1>>, <<0>> >>, <<2>>),
      Pattern(<< <<0>>, <<1>>, <<0>>, <<0>>, <<0>>, <<1>> >>, <<2>>),
      Pattern(<< <<1>>, <<0>>, <<0>>, <<0>>, <<0>>, <<1>> >>, <<2>>),
      Pattern(<< <<0>>, <<0>>, <<0>>, <<0>>, <<1>>, <<1>> >>, <<2>>),
      Pattern(<< <<0>>, <<0>>, <<0>>, <<0>>, <<0>>, <<0>> >>, <<1>>),
      Pattern(<< <<1>>, <<0>>, <<0>>, <<0>>, <<0>>, <<0>> >>, <<0>>),
      Pattern(<< <<>>, <<>>, <<1>>, <<>>, <<>>, <<>> >>, <<1>>) }

FirstAuthorOnly == Pattern(<< <<1>>, <<0>>, <<0>>, <<0>>, <<0>>, <<0>> >>, <<1>>)
Contrib1Only == Pattern(<< <<0>>, <<1>>, <<0>>, <<0>>, <<0>>, <<0>> >>, <<1>>)
DirectorAndFirst == Pattern(<< <<1>>, <<0>>, <<0>>, <<0>>, <<1>>, <<0>> >>, <<2>>)
FirstAuthorSumZero == Pattern(<< <<1>>, <<0>>, <<0>>, <<0>>, <<0>>, <<0>> >>, <<0>>)

SheetRow(p, pattern) ==
    [last |-> p.last, first |-> p.first, w |-> pattern.w, sum |-> pattern.sum]

\* a row whose cells are all empty
EmptySheetRow ==
    [last |-> NaNStr, first |-> <<>>, w |-> [c \in Categories |-> <<>>],
     sum |-> <<>>]

\* dropna(axis='index', how='all')
DropNaSheet(rows) == SelectSeq(rows, LAMBDA r : r # EmptySheetRow)

\* df[df['sum'] > 0]: an empty sum cell compares False
SumPositive(rows) == SelectSeq(rows, LAMBDA r : r.sum # <<>> /\ r.sum[1] > 0)

\* fillna(value=0) on the cells of a row
FillNa(r) ==
    [last |-> r.last, first |-> r.first,
     w |-> [c \in Categories |-> IF r.w[c] = <<>> THEN 0 ELSE r.w[c][1]],
     sum |-> r.sum[1]]

\* the frame of _make_author_order before it is indexed
FilteredRows(rows) ==
    LET kept == SumPositive(DropNaSheet(rows))
    IN [i \in 1..Len(kept) |-> FillNa(kept[i])]

\* df.index = name_index
WithIndex(rows, name_index) ==
    [i \in 1..Len(rows) |->
        [key |-> name_index[i], last |-> rows[i].last, first |-> rows[i].first,
         w |-> rows[i].w, sum |-> rows[i].sum]]

\* df.index
Index(frame) == [i \in 1..Len(frame) |-> frame[i].key]

\* df.at[author, column] on a frame whose index is unique
At(frame, author, column) ==
    frame[CHOOSE i \in 1..Len(frame) : frame[i].key = author].w[column]

\* the condition without the test of the two override categories
ShouldAppendNoOverride(frame, order, author, author_category) ==
    /\ author \notin Range(order)
    /\ At(frame, author, author_category) > 0

\* the condition with the first author category that is met, whatever its weight
ShouldAppendAnyWeight(frame, order, author, author_category) ==
    IF author_category \notin OverrideCategories
    THEN /\ author \notin Range(order)
         /\ At(frame, author, author_category) >= 0
         /\ At(frame, author, "Scientific Directors") = 0
         /\ At(frame, author, "Contributing authors list #3") = 0
    ELSE /\ author \notin Range(order)
         /\ At(frame, author, author_category) > 0

\* the condition under which the loop over df.index appends the author
ShouldAppend(frame, order, author, author_category) ==
    IF author_category \notin OverrideCategories
    THEN /\ author \notin Range(order)
         /\ At(frame, author, author_category) > 0
         /\ At(frame, author, "Scientific Directors") = 0
         /\ At(frame, author, "Contributing authors list #3") = 0
    ELSE /\ author \notin Range(order)
         /\ At(frame, author, author_category) > 0

\* the inner loop walking df.index from the last row to the first
RECURSIVE PassBottomUp(_, _, _, _)
PassBottomUp(frame, order, author_category, i) ==
    IF i > Len(frame)
    THEN order
    ELSE PassBottomUp(frame,
                      IF ShouldAppend(frame, order, frame[Len(frame) + 1 - i].key,
                                      author_category)
                      THEN Append(order, frame[Len(frame) + 1 - i].key)
                      ELSE order,
                      author_category, i + 1)

\* the inner loop `for author in df.index`, from row i on
RECURSIVE PassFrom(_, _, _, _)
PassFrom(frame, order, author_category, i) ==
    IF i > Len(frame)
    THEN order
    ELSE PassFrom(frame,
                  IF ShouldAppend(frame, order, frame[i].key, author_category)
                  THEN Append(order, frame[i].key)
                  ELSE order,
                  author_category, i + 1)

\* one iteration of `for author_category in self.author_categories`
CategoryPassOver(frame, order, author_category) ==
    PassFrom(frame, order, author_category, 1)


(***************************************************************************)
(* The workbooks the runs read.                                            *)
(***************************************************************************)
\* The workbooks a run may read are given as families: Family[k] is the set of
\* the sheets of k rows.

\* the weights and sum of a row whose cells are all empty
EmptyPattern == Pattern(<< <<>>, <<>>, <<>>, <<>>, <<>>, <<>> >>, <<>>)

\* membership sheets with every pattern of weights: row i is empty or belongs
\* to PersonAt[i]
RichSheetRow(i, p) ==
    IF p = EmptyPattern THEN EmptySheetRow ELSE SheetRow(PersonAt[i], p)

SheetsRich ==
    [k \in 0..Min(MaxRows, Len(PersonAt)) |->
        {[i \in 1..k |-> RichSheetRow(i, f[i])] :
            f \in [1..k -> WeightPatterns \cup {EmptyPattern}]}]

\* a master sheet that holds every author of PersonAt
TemplateFull ==
    << TemplateRow(SmithJohn, "Lab1", "0000-0001"),
       TemplateRow(DoeAlice, "Lab2", "not-provided"),
       TemplateRow(LeeKim, "Lab1", "0000-0003"),
       TemplateRow(PogoreutzClaudia, "not-provided", "not-provided") >>

TemplatesFull == [k \in {Len(TemplateFull)} |-> {TemplateFull}]

\* affiliation and ORCID of a master row; the last stands for an empty row
AffiliationChoices ==
    { <<"Lab1", "0000-0001">>, <<"Lab2", "not-provided">>,
      <<"not-provided", "0000-0002">>, <<NaNStr, "0000-0001">>,
      <<NaNStr, NaNStr>> }

\* master sheets with every affiliation: row i is empty or belongs to
\* PersonAt[i]
RichTemplateRow(i, c) ==
    IF c = <<NaNStr, NaNStr>> THEN EmptyTemplateRow
    ELSE TemplateRow(PersonAt[i], c[1], c[2])

TemplatesRich ==
    [k \in 0..Min(MaxTemplateRows, Len(PersonAt)) |->
        {[i \in 1..k |-> RichTemplateRow(i, f[i])] :
            f \in [1..k -> AffiliationChoices]}]

\* membership sheets of first authors, the authors distinct and in any order
SheetsOfAuthors ==
    [k \in 0..Min(MaxTemplateRows, Len(PersonAt)) |->
        {[i \in 1..k |-> SheetRow(PersonAt[f[i]], FirstAuthorOnly)] :
            f \in {g \in [1..k -> 1..Min(MaxTemplateRows, Len(PersonAt))] :
                      \A i, j \in 1..k : g[i] = g[j] => i = j}}]

\* small sheets whose authors may collide
SmallTemplateRows ==
    { TemplateRow(SmithJohn, "Lab1", "0000-0001"),
      TemplateRow(SmithJane, "Lab2", "not-provided"),
      TemplateRow(DoeAlice, "Lab1", "not-provided") }

TemplatesSmall == [k \in 0..MaxSmallRows |-> [1..k -> SmallTemplateRows]]

SmallSheetRows ==
    { SheetRow(SmithJohn, FirstAuthorOnly),
      SheetRow(SmithJane, Contrib1Only),
      SheetRow(SmithJane, FirstAuthorSumZero),
      SheetRow(DoeAlice, DirectorAndFirst) }

SheetsSmall == [k \in 0..MaxSmallRows |-> [1..k -> SmallSheetRows]]

(***************************************************************************)
(* The run.                                                                *)
(***************************************************************************)
\* the state before the script starts, but for pc
Fresh(disks) ==
    /\ error = NoError
    /\ disk \in disks
    /\ args = EmptyArgs
    /\ submission = FALSE
    /\ data_file_path_list = <<>>
    /\ meta_title = NoneArg
    /\ meta_description = NoneArg
    /\ access_token = NoneArg
    /\ references = <<>>
    /\ template_rows = <<>>
    /\ author_info_df = EmptyFrame
    /\ sheet_rows = <<>>
    /\ df = <<>>
    /\ cat = 1
    /\ author_order_list = <<>>
    /\ author_order = <<>>
    /\ affiliation_list = <<>>
    /\ affil_str_to_affil_num_dict = <<>>
    /\ affil_num_to_affil_str_dict = <<>>
    /\ author_to_affil_num_list_dict = <<>>
    /\ creator_array = <<>>
    /\ files_written = <<>>
    /\ requests = <<>>
    /\ deposition = [bucket_url |-> "", deposition_id |-> ""]
    /\ upload_i = 1
    /\ reported = FALSE
    /\ affil_num = 0
    /\ sup_num = <<>>

InitWith(disks) ==
    /\ pc = "start"
    /\ Fresh(disks)

\* an uncaught exception ends the run
Abort(e) ==
    /\ pc' = "aborted"
    /\ error' = e

\* __init__ up to the choice of a submission: the command line is parsed and
\* the output directory checked
ParseArgs(argSet) ==
    /\ pc = "start"
    /\ \E a \in argSet :
        /\ args' = a
        /\ IF a.output_dir_path \notin ExistingDirs
           THEN /\ Abort(Raise("RuntimeError", "__init__"))
                /\ UNCHANGED submission
           ELSE /\ submission' = a.submission
                /\ pc' = IF a.submission THEN "setup_submission_vars"
                                         ELSE "make_author_info_df"
                /\ UNCHANGED error
    /\ UNCHANGED <<disk, data_file_path_list, meta_title, meta_description,
                   access_token, references, masterVars, orderVars, affilVars,
                   outVars, remoteVars>>
    /\ UNCHANGED supVars

\* the exception _setup_submission_vars ends with, NoError when it returns
SetupError(a, onDisk) ==
    IF a.data_file_paths # <<>> /\ NoFile(a.data_file_paths, onDisk) # <<>>
    THEN [type |-> "FileNotFoundError", where |-> "_get_and_check_datafile_paths",
          files |-> NoFile(a.data_file_paths, onDisk)]
    ELSE IF Falsy(a.meta_title)
    THEN Raise("RuntimeError", "_setup_submission_vars")
    ELSE IF a.meta_description = NoneArg
    THEN Raise("TypeError", "_setup_submission_vars")
    ELSE IF a.access_token_path = NoneArg
    THEN Raise("TypeError", "_setup_submission_vars")
    ELSE IF a.access_token_path \notin ExistingFiles
    THEN Raise("FileNotFoundError", "_setup_submission_vars")
    ELSE IF ~Falsy(a.references) /\ a.references \notin ExistingFiles
    THEN Raise("FileNotFoundError", "_setup_submission_vars")
    ELSE NoError

\* '\n'.join of the lines of the description file
RECURSIVE JoinLines(_)
JoinLines(lines) ==
    IF Len(lines) = 0 THEN ""
    ELSE IF Len(lines) = 1 THEN lines[1]
    ELSE lines[1] \o "\n" \o JoinLines(Tail(lines))

\* _setup_submission_vars: the attributes are assigned in the order of the
\* code, up to the statement that raises
SetupSubmissionVars ==
    /\ pc = "setup_submission_vars"
    /\ LET e == SetupError(args, disk)
           filesOk == e.where # "_get_and_check_datafile_paths"
           titleOk == filesOk /\ ~Falsy(args.meta_title)
           descriptionOk == titleOk /\ args.meta_description # NoneArg
           tokenOk == descriptionOk /\ args.access_token_path \in ExistingFiles
       IN /\ data_file_path_list' =
                IF filesOk THEN args.data_file_paths ELSE data_file_path_list
          /\ meta_title' = IF filesOk THEN args.meta_title ELSE meta_title
          /\ meta_description' =
                IF ~descriptionOk THEN meta_description
                ELSE IF args.meta_description \in ExistingFiles
                THEN JoinLines(DescriptionFileLines)
                ELSE args.meta_description
          /\ access_token' = IF tokenOk THEN "token" ELSE access_token
          /\ references' =
                IF e # NoError \/ Falsy(args.references) THEN references
                ELSE ReferenceFileLines
          /\ IF e # NoError
             THEN Abort(e)
             ELSE /\ pc' = "make_author_info_df"
                  /\ UNCHANGED error
    /\ UNCHANGED <<disk, args, submission, masterVars, orderVars, affilVars,
                   outVars, remoteVars>>
    /\ UNCHANGED supVars

MakeAuthorInfoDf(templates) ==
    /\ pc = "make_author_info_df"
    /\ \E k \in DOMAIN templates : \E t \in templates[k] :
        /\ template_rows' = t
        /\ LET rows == DropNaTemplate(t)
               name_index == NameIndex(rows)
           IN IF ~KeysUnique(name_index)
              THEN /\ Abort(Raise("AssertionError", "_make_author_info_df"))
                   /\ UNCHANGED author_info_df
              ELSE /\ author_info_df' = ApplyPatches(IndexBy(rows, name_index))
                   /\ pc' = "make_author_order"
                   /\ UNCHANGED error
    /\ UNCHANGED <<disk, argVars, orderVars, affilVars, outVars, remoteVars>>
    /\ UNCHANGED supVars

\* _make_author_order up to its loop: the sheet is read, filtered and indexed
ReadSheet(sheets) ==
    /\ pc = "make_author_order"
    /\ \E k \in DOMAIN sheets : \E s \in sheets[k] :
        /\ sheet_rows' = s
        /\ LET rows == FilteredRows(s)
               name_index == NameIndex(rows)
           IN IF ~KeysUnique(name_index)
              THEN /\ Abort(Raise("AssertionError", "_make_author_order: name_index"))
                   /\ UNCHANGED <<df, cat, author_order_list>>
              ELSE /\ df' = WithIndex(rows, name_index)
                   /\ author_order_list' = <<>>
                   /\ cat' = 1
                   /\ pc' = "category_pass"
                   /\ UNCHANGED error
    /\ UNCHANGED <<disk, argVars, masterVars, author_order, affilVars, outVars,
                   remoteVars>>
    /\ UNCHANGED supVars

\* one iteration of the loop over self.author_categories
CategoryPass ==
    /\ pc = "category_pass"
    /\ author_order_list' =
          CategoryPassOver(df, author_order_list, author_categories[cat])
    /\ IF cat < Len(author_categories)
       THEN /\ cat' = cat + 1
            /\ UNCHANGED pc
       ELSE /\ pc' = "assert_order"
            /\ UNCHANGED cat
    /\ UNCHANGED <<error, disk, argVars, masterVars, sheet_rows, df,
                   author_order, affilVars, outVars, remoteVars>>
    /\ UNCHANGED supVars

\* a run whose length assertion is not evaluated
LengthsAgreeUnchecked(order, frame) == TRUE

\* len(author_order_list) == len(df.index)
LengthsAgree(order, frame) == Len(order) = Len(Index(frame))

\* the length assertion and the return of _make_author_order
AssertOrder ==
    /\ pc = "assert_order"
    /\ IF LengthsAgree(author_order_list, df)
       THEN /\ author_order' = author_order_list
            /\ pc' = "make_affiliations_dicts"
            /\ UNCHANGED error
       ELSE /\ Abort(Raise("AssertionError", "_make_author_order: author_order_list"))
            /\ UNCHANGED author_order
    /\ UNCHANGED <<disk, argVars, masterVars, sheet_rows, df, cat,
                   author_order_list, affilVars, outVars, remoteVars>>
    /\ UNCHANGED supVars


(***************************************************************************)
(* Affiliation numbering.                                                  *)
(***************************************************************************)
\* d[k] = v on a dict
Put(d, k, v) == [x \in DOMAIN d \cup {k} |-> IF x = k THEN v ELSE d[x]]

\* d[k] on a defaultdict(list)
GetList(d, k) == IF k \in DOMAIN d THEN d[k] ELSE <<>>

EmptyDicts ==
    [affiliation_list |-> <<>>, affil_str_to_affil_num_dict |-> <<>>,
     affil_num_to_affil_str_dict |-> <<>>, author_to_affil_num_list_dict |-> <<>>]

\* every affiliation met is taken for a new one
NotInListAlways(affil_string, list) == TRUE

\* `affil_string not in affiliation_list`; an empty affiliation cell is the one
\* NaN object of the frame, which `in` finds by identity
NotInList(affil_string, list) == affil_string \notin Range(list)

\* the body that files the string under the length of the list before the
\* append
NumberAffiliationOffByOne(st, author, affil_string) ==
    IF affil_string \notin Range(st.affiliation_list)
    THEN LET list == Append(st.affiliation_list, affil_string)
         IN [affiliation_list |-> list,
             affil_str_to_affil_num_dict |->
                 Put(st.affil_str_to_affil_num_dict, affil_string, Len(list)),
             author_to_affil_num_list_dict |->
                 Put(st.author_to_affil_num_list_dict, author,
                     Append(GetList(st.author_to_affil_num_list_dict, author),
                            Len(list))),
             affil_num_to_affil_str_dict |->
                 Put(st.affil_num_to_affil_str_dict, Len(st.affiliation_list),
                     affil_string)]
    ELSE [st EXCEPT !.author_to_affil_num_list_dict =
             Put(st.author_to_affil_num_list_dict, author,
                 Append(GetList(st.author_to_affil_num_list_dict, author),
                        st.affil_str_to_affil_num_dict[affil_string]))]

\* the body of `for affil_string in author_affil_list`
NumberAffiliation(st, author, affil_string) ==
    IF NotInList(affil_string, st.affiliation_list)
    THEN LET list == Append(st.affiliation_list, affil_string)
         IN [affiliation_list |-> list,
             affil_str_to_affil_num_dict |->
                 Put(st.affil_str_to_affil_num_dict, affil_string, Len(list)),
             author_to_affil_num_list_dict |->
                 Put(st.author_to_affil_num_list_dict, author,
                     Append(GetList(st.author_to_affil_num_list_dict, author),
                            Len(list))),
             affil_num_to_affil_str_dict |->
                 Put(st.affil_num_to_affil_str_dict, Len(list), affil_string)]
    ELSE [st EXCEPT !.author_to_affil_num_list_dict =
             Put(st.author_to_affil_num_list_dict, author,
                 Append(GetList(st.author_to_affil_num_list_dict, author),
                        st.affil_str_to_affil_num_dict[affil_string]))]

\* `for author in self.author_order`, from position i on; every author is in
\* the frame here
RECURSIVE NumberFrom(_, _, _, _)
NumberFrom(frame, order, st, i) ==
    IF i > Len(order)
    THEN st
    ELSE NumberFrom(frame, order,
                    NumberAffiliation(st, order[i], frame[order[i]].affiliation),
                    i + 1)

\* self.author_info_df.at[author, 'affiliation'] raises KeyError
AffiliationLookupFails(frame, order) ==
    \E i \in 1..Len(order) : order[i] \notin DOMAIN frame

MakeAffiliationsDicts ==
    /\ pc = "make_affiliations_dicts"
    /\ IF AffiliationLookupFails(author_info_df, author_order)
       THEN /\ Abort(Raise("RuntimeWarning", "_make_affiliations_dicts"))
            /\ UNCHANGED affilVars
       ELSE LET st == NumberFrom(author_info_df, author_order, EmptyDicts, 1)
            IN /\ affiliation_list' = st.affiliation_list
               /\ affil_str_to_affil_num_dict' = st.affil_str_to_affil_num_dict
               /\ affil_num_to_affil_str_dict' = st.affil_num_to_affil_str_dict
               /\ author_to_affil_num_list_dict' = st.author_to_affil_num_list_dict
               /\ pc' = "make_creator_array"
               /\ UNCHANGED error
    /\ UNCHANGED <<disk, argVars, masterVars, orderVars, outVars, remoteVars>>
    /\ UNCHANGED supVars

(***************************************************************************)
(* The creator array and the four output texts.                            *)
(***************************************************************************)
\* a first name as the f-string prints it: its characters, 'nan' for an empty
\* cell
RECURSIVE Chars(_)
Chars(first) == IF Len(first) = 0 THEN "" ELSE first[1] \o Chars(Tail(first))

FirstName(first) == IF first = <<>> THEN NaNStr ELSE Chars(first)

\* a dictionary that carries the affiliation whatever it is
CreatorEntryWithSentinel(row) ==
    [f \in {"name", "affiliation"}
        \cup (IF row.ORCID # "not-provided" THEN {"orcid"} ELSE {}) |->
        IF f = "name" THEN row.last \o ", " \o FirstName(row.first)
        ELSE IF f = "affiliation" THEN row.affiliation
        ELSE row.ORCID]

\* one dictionary of the creator array
CreatorEntry(row) ==
    [f \in {"name"}
        \cup (IF row.affiliation # "not-provided" THEN {"affiliation"} ELSE {})
        \cup (IF row.ORCID # "not-provided" THEN {"orcid"} ELSE {}) |->
        IF f = "name" THEN row.last \o ", " \o FirstName(row.first)
        ELSE IF f = "affiliation" THEN row.affiliation
        ELSE row.ORCID]

MakeCreatorArrayOf(frame, order) ==
    [i \in 1..Len(order) |-> CreatorEntry(frame[order[i]])]

\* the end of __init__
MakeCreatorArray ==
    /\ pc = "make_creator_array"
    /\ creator_array' = MakeCreatorArrayOf(author_info_df, author_order)
    /\ pc' = "output_author_info"
    /\ UNCHANGED <<error, disk, argVars, masterVars, orderVars, affilVars,
                   files_written, remoteVars>>
    /\ UNCHANGED supVars

\* sep.join(texts), a text being a sequence of tokens
RECURSIVE Join(_, _)
Join(texts, sep) ==
    IF Len(texts) = 0 THEN <<>>
    ELSE IF Len(texts) = 1 THEN texts[1]
    ELSE texts[1] \o <<sep>> \o Join(Tail(texts), sep)

\* str(n) for n >= 0, as the sequence of its decimal digits
RECURSIVE Digits(_)
Digits(n) == IF n < 10 THEN <<n>> ELSE Digits(n \div 10) \o <<n % 10>>

\* sup_map
SupMap(d) == "superscript-" \o ToString(d)

\* the glyphs from the last decimal digit to the first
SuperscriptReversed(number_to_convert) ==
    LET num == Digits(number_to_convert)
    IN [i \in 1..Len(num) |-> SupMap(num[Len(num) + 1 - i])]

\* _superscript: one superscript glyph per decimal digit
Superscript(number_to_convert) ==
    LET num == Digits(number_to_convert)
    IN [i \in 1..Len(num) |-> SupMap(num[i])]

\* one call self._superscript(affil_num) and its return, as
\* _create_author_with_affiliation_string makes it for an affiliation number
SuperscriptCall ==
    /\ pc = "superscript"
    /\ \E n \in 1..MaxNumber :
        /\ affil_num' = n
        /\ sup_num' = Superscript(n)
    /\ UNCHANGED <<pc, error, disk, argVars, masterVars, orderVars, affilVars,
                   outVars, remoteVars>>

\* the glyph that joins the affiliation numbers of one author
ModifierComma == "modifier-comma"

AuthorWithoutAffiliationString(frame, order) ==
    Join([i \in 1..Len(order) |->
            <<frame[order[i]].last, ", ", frame[order[i]].initials>>], "; ")

AuthorWithAffiliationString(frame, order, numbers) ==
    Join([i \in 1..Len(order) |->
            <<frame[order[i]].last, ", ", frame[order[i]].initials>>
            \o Join([j \in 1..Len(GetList(numbers, order[i])) |->
                        Superscript(GetList(numbers, order[i])[j])],
                    ModifierComma)],
         "; ")

\* _create_affiliation_strings, joined by sep
AffiliationString(list, num_to_str, sep) ==
    Join([n \in 1..Len(list) |-> <<ToString(n), "-", num_to_str[n]>>], sep)

\* a script that goes on to the submission without writing the texts
OutputAuthorInfoSkipped ==
    /\ pc = "output_author_info"
    /\ pc' = IF submission THEN "do_zenodo_submission" ELSE "skip_submission"
    /\ UNCHANGED <<error, disk, argVars, masterVars, orderVars, affilVars,
                   outVars, remoteVars, supVars>>

\* output_author_info: the four texts are made and written, in this order
OutputAuthorInfo ==
    /\ pc = "output_author_info"
    /\ files_written' =
        << [name |-> "author_string_w_o_affiliation_numbers.txt",
            content |-> AuthorWithoutAffiliationString(author_info_df, author_order)],
           [name |-> "author_string_w_affiliation_numbers.txt",
            content |-> AuthorWithAffiliationString(author_info_df, author_order,
                                                    author_to_affil_num_list_dict)],
           [name |-> "affiliations_one_line.txt",
            content |-> AffiliationString(affiliation_list,
                                          affil_num_to_affil_str_dict, "; ")],
           [name |-> "affiliations_new_lines.txt",
            content |-> AffiliationString(affiliation_list,
                                          affil_num_to_affil_str_dict, ";\n")] >>
    /\ pc' = IF submission THEN "do_zenodo_submission" ELSE "skip_submission"
    /\ UNCHANGED <<error, disk, argVars, masterVars, orderVars, affilVars,
                   creator_array, remoteVars>>
    /\ UNCHANGED supVars

\* the else branch of the script: the submission is skipped
SkipSubmission ==
    /\ pc = "skip_submission"
    /\ pc' = "done"
    /\ UNCHANGED <<error, disk, argVars, masterVars, orderVars, affilVars,
                   outVars, remoteVars>>
    /\ UNCHANGED supVars


(***************************************************************************)
(* The Zenodo submission.                                                  *)
(***************************************************************************)
DepositionsUrl == "https://zenodo.org/api/deposit/depositions"

\* a remote call and whether the response was a success
Request(method, url, data, ok) ==
    [method |-> method, url |-> url, data |-> data, ok |-> ok]

\* _get_notes
Notes == "Special thanks to the Tara Ocean Foundation, ..."

\* _make_meta_data_object
MetaDataObject(title, description, creators, refs) ==
    [title |-> title, upload_type |-> "dataset", description |-> description,
     access_right |-> "restricted", license |-> "CC-BY-4.0",
     access_conditions |->
         "Any Tara Pacific Expedition participant may request access.",
     communities |-> <<"tarapacific">>, version |-> "1", language |-> "eng",
     creators |-> creators, notes |-> Notes, references |-> refs]

\* _prepare_filenames_and_paths
FilenameList(paths) == [i \in 1..Len(paths) |-> Basename(paths[i])]

\* the uploads issued from the last path to the first
UploadRequestReversed(paths, bucket_url, i, ok) ==
    Request("PUT", <<bucket_url, "/", FilenameList(paths)[Len(paths) + 1 - i]>>,
            <<paths[Len(paths) + 1 - i]>>, ok)

\* requests.put of _upload_files_to_deposition for the i-th pair of
\* zip(self.data_file_path_list, filename_list)
UploadRequest(paths, bucket_url, i, ok) ==
    Request("PUT", <<bucket_url, "/", FilenameList(paths)[i]>>, <<paths[i]>>, ok)

\* _create_blank_deposition and the branch on self.data_file_path_list: a
\* response that is no success has no "links" and the lookup raises KeyError
CreateBlankDeposition ==
    /\ pc = "do_zenodo_submission"
    /\ \E ok \in BOOLEAN :
        /\ requests' = Append(requests, Request("POST", <<DepositionsUrl>>, <<>>, ok))
        /\ IF ok
           THEN /\ deposition' = [bucket_url |-> "https://zenodo.org/api/files/bucket",
                                  deposition_id |-> "deposition-id"]
                /\ pc' = IF data_file_path_list # <<>> THEN "upload_files"
                                                       ELSE "associate_meta_data"
                /\ UNCHANGED error
           ELSE /\ Abort(Raise("KeyError", "_create_blank_deposition"))
                /\ UNCHANGED deposition
    /\ upload_i' = 1
    /\ UNCHANGED <<disk, argVars, masterVars, orderVars, affilVars, outVars,
                   reported>>
    /\ UNCHANGED supVars

\* one iteration of the loop of _upload_files_to_deposition; the response r of
\* the put is not looked at
UploadFile ==
    /\ pc = "upload_files"
    /\ \E ok \in BOOLEAN :
        /\ requests' = Append(requests,
              UploadRequest(data_file_path_list, deposition.bucket_url, upload_i, ok))
        /\ IF upload_i < Len(data_file_path_list)
           THEN /\ upload_i' = upload_i + 1
                /\ UNCHANGED <<pc, error>>
           ELSE /\ pc' = "associate_meta_data"
                /\ UNCHANGED <<upload_i, error>>
    /\ UNCHANGED <<disk, argVars, masterVars, orderVars, affilVars, outVars,
                   deposition, reported>>
    /\ UNCHANGED supVars

\* the metadata is put and the review URL reported: the report reads
\* ["links"]["html"] of the response, which raises KeyError when the response
\* is no success
AssociateMetaData ==
    /\ pc = "associate_meta_data"
    /\ \E ok \in BOOLEAN :
        /\ requests' = Append(requests,
              Request("PUT", <<DepositionsUrl, "/", deposition.deposition_id>>,
                      <<MetaDataObject(meta_title, meta_description,
                                       creator_array, references)>>, ok))
        /\ IF ok
           THEN /\ reported' = TRUE
                /\ pc' = "done"
                /\ UNCHANGED error
           ELSE /\ Abort(Raise("KeyError", "do_zenodo_submission"))
                /\ UNCHANGED reported
    /\ UNCHANGED <<disk, argVars, masterVars, orderVars, affilVars, outVars,
                   deposition, upload_i>>
    /\ UNCHANGED supVars

(***************************************************************************)
(* Specifications.                                                         *)
(***************************************************************************)
\* the whole run, over every command line and small workbooks
Init == InitWith(SUBSET DataPaths)

Next ==
    \/ ParseArgs(ArgsAll)
    \/ SetupSubmissionVars
    \/ MakeAuthorInfoDf(TemplatesSmall)
    \/ ReadSheet(SheetsSmall)
    \/ CategoryPass
    \/ AssertOrder
    \/ MakeAffiliationsDicts
    \/ MakeCreatorArray
    \/ OutputAuthorInfo
    \/ SkipSubmission
    \/ CreateBlankDeposition
    \/ UploadFile
    \/ AssociateMetaData

Spec == Init /\ [][Next]_vars

\* runs without a submission
InitPlain == InitWith({{}})

\* the ordering of the authors, over every pattern of weights
NextOrder ==
    \/ ParseArgs(ArgsPlain)
    \/ MakeAuthorInfoDf(TemplatesFull)
    \/ ReadSheet(SheetsRich)
    \/ CategoryPass
    \/ AssertOrder
    \/ MakeAffiliationsDicts
    \/ MakeCreatorArray
    \/ OutputAuthorInfo
    \/ SkipSubmission

SpecOrder == InitPlain /\ [][NextOrder]_vars

\* the numbering of the affiliations, over every master sheet
NextAffil ==
    \/ ParseArgs(ArgsPlain)
    \/ MakeAuthorInfoDf(TemplatesRich)
    \/ ReadSheet(SheetsOfAuthors)
    \/ CategoryPass
    \/ AssertOrder
    \/ MakeAffiliationsDicts
    \/ MakeCreatorArray
    \/ OutputAuthorInfo
    \/ SkipSubmission

SpecAffil == InitPlain /\ [][NextAffil]_vars

\* calls of _superscript, one after the other, on the numbers 1..MaxNumber
InitSuperscript ==
    /\ pc = "superscript"
    /\ Fresh({{}})

NextSuperscript == SuperscriptCall

SpecSuperscript == InitSuperscript /\ [][NextSuperscript]_vars


(***************************************************************************)
(* Properties of the author order (checked under SpecOrder).               *)
(***************************************************************************)
\* the keys of the rows of the membership sheet that pass the filter
FilteredKeys == NameIndex(FilteredRows(sheet_rows))

\* the run is in _make_author_order or before it
BeforeOrderReturn ==
    pc \in {"start", "setup_submission_vars", "make_author_info_df",
            "make_author_order", "category_pass", "assert_order"}

\* the run ended before _make_author_order returned
AbortedBeforeOrderReturn ==
    /\ pc = "aborted"
    /\ error.where \in {"__init__", "_get_and_check_datafile_paths",
                        "_setup_submission_vars", "_make_author_info_df",
                        "_make_author_order: name_index",
                        "_make_author_order: author_order_list"}

\* _make_author_order has returned self.author_order
OrderReturned == ~BeforeOrderReturn /\ ~AbortedBeforeOrderReturn

\* how often the key occurs in the order
Occurrences(order, key) == Cardinality({j \in 1..Len(order) : order[j] = key})

\* C1: when the filtered rows have unique keys, a returned AuthorOrder holds
\* the key of every filtered row exactly once and no other key, so it is as
\* long as the filtered table; and when the six passes have left a filtered
\* row unplaced, the run has ended on the length assertion and no order was
\* returned.
C1_OrderCoversFilteredRows ==
    pc \notin {"category_pass", "assert_order"} =>
        LET keys == FilteredKeys
        IN KeysUnique(keys) =>
            /\ OrderReturned =>
                  /\ Len(author_order) = Len(keys)
                  /\ Range(author_order) = Range(keys)
                  /\ \A k \in Range(keys) : Occurrences(author_order, k) = 1
            /\ (\E k \in Range(keys) : k \notin Range(author_order_list))
                  => /\ pc = "aborted"
                     /\ error = Raise("AssertionError",
                                      "_make_author_order: author_order_list")
                     /\ author_order = <<>>

\* a returned order of three authors that is not the order of the rows
C1_Witness ==
    /\ OrderReturned
    /\ Len(author_order) = 3
    /\ author_order # FilteredKeys
    /\ Len(sheet_rows) = 3

\* the authors the step appends to the order
NewlyAppended == Range(author_order_list') \ Range(author_order_list)

\* the author has a positive weight in an override category
InOverride(frame, a) ==
    \/ At(frame, a, "Scientific Directors") > 0
    \/ At(frame, a, "Contributing authors list #3") > 0

\* the first override category, in priority order, with a positive weight
FirstOverride(frame, a) ==
    IF At(frame, a, "Scientific Directors") > 0
    THEN "Scientific Directors"
    ELSE "Contributing authors list #3"

\* the table of the example: SmithJ(FirstAuthor=1), DoeA(Contrib1=1),
\* LeeK(ScientificDirector=1, FirstAuthor=1)
ExampleSheet ==
    << SheetRow(SmithJohn, FirstAuthorOnly), SheetRow(DoeAlice, Contrib1Only),
       SheetRow(LeeKim, DirectorAndFirst) >>

\* C2: an author with a positive weight in 'Scientific Directors' or
\* 'Contributing authors list #3' is appended in the pass of the first override
\* category in which the weight is positive, never in the pass of an ordinary
\* category, and is in the order when the passes are over; the table of the
\* example gives [SmithJ, DoeA, LeeK].
C2_OverrideAuthorsPlacedAtOverridePass ==
    [][ /\ pc = "category_pass" =>
              \A a \in NewlyAppended :
                  InOverride(df, a) => author_categories[cat] = FirstOverride(df, a)
        /\ pc' = "assert_order" =>
              /\ \A a \in Range(Index(df)) :
                    InOverride(df, a) => Occurrences(author_order_list', a) = 1
              /\ sheet_rows = ExampleSheet =>
                    author_order_list' = <<"SmithJ", "DoeA", "LeeK">>
      ]_vars

\* the order of the example is returned
C2_Witness ==
    /\ sheet_rows = ExampleSheet
    /\ OrderReturned
    /\ author_order = <<"SmithJ", "DoeA", "LeeK">>

\* the priority order of the four ordinary categories
OrdinaryPriority ==
    <<"First author(s)", "Contributing authors list #1",
      "Contributing authors list #2", "Consortium Coordinators">>

\* both override weights are 0 and an ordinary weight is positive
OrdinaryOnly(frame, a) ==
    /\ At(frame, a, "Scientific Directors") = 0
    /\ At(frame, a, "Contributing authors list #3") = 0
    /\ \E i \in 1..Len(OrdinaryPriority) : At(frame, a, OrdinaryPriority[i]) > 0

\* the first ordinary category, in priority order, with a positive weight
FirstOrdinary(frame, a) ==
    OrdinaryPriority[CHOOSE i \in 1..Len(OrdinaryPriority) :
        /\ At(frame, a, OrdinaryPriority[i]) > 0
        /\ \A j \in 1..(i - 1) : ~(At(frame, a, OrdinaryPriority[j]) > 0)]

\* C3: an author whose override weights are both 0 and who has a positive
\* weight in an ordinary category is appended in the pass of the first
\* category of [First author(s), Contributing authors list #1, Contributing
\* authors list #2, Consortium Coordinators] in which the weight is positive,
\* and in no later pass.
C3_OrdinaryAuthorsPlacedAtFirstCategory ==
    [][ /\ pc = "category_pass" =>
              \A a \in NewlyAppended :
                  OrdinaryOnly(df, a) => author_categories[cat] = FirstOrdinary(df, a)
        /\ pc' = "assert_order" =>
              \A a \in Range(Index(df)) :
                  OrdinaryOnly(df, a) => Occurrences(author_order_list', a) = 1
      ]_vars

\* an author with two ordinary categories, the first of which is not the first
\* category of all, has been placed behind an author of a later row
C3_Witness ==
    /\ OrderReturned
    /\ Len(df) = 3
    /\ \E i \in 1..Len(df) :
          /\ df[i].w["Contributing authors list #2"] > 0
          /\ df[i].w["Consortium Coordinators"] > 0
          /\ OrdinaryOnly(df, df[i].key)
          /\ \E j \in (i + 1)..Len(df) :
                /\ OrdinaryOnly(df, df[j].key)
                /\ \E m, n \in 1..Len(author_order) :
                      /\ m < n
                      /\ author_order[m] = df[j].key
                      /\ author_order[n] = df[i].key


(***************************************************************************)
(* Properties of the affiliation numbering (checked under SpecAffil).      *)
(***************************************************************************)
\* _make_affiliations_dicts has returned
AffiliationsNumbered ==
    /\ OrderReturned
    /\ pc # "make_affiliations_dicts"
    /\ ~(pc = "aborted" /\ error.where = "_make_affiliations_dicts")

\* the affiliation of the author at position i of AuthorOrder
AffiliationAt(i) == author_info_df[author_order[i]].affiliation

\* the first position of AuthorOrder with the affiliation of position i
FirstSeen(i) ==
    CHOOSE j \in 1..i :
        /\ AffiliationAt(j) = AffiliationAt(i)
        /\ \A m \in 1..(j - 1) : AffiliationAt(m) # AffiliationAt(i)

\* the number of distinct affiliations met up to the first sight of the
\* affiliation of position i
FirstSeenRank(i) == Cardinality({AffiliationAt(j) : j \in 1..FirstSeen(i)})

\* C4: walking AuthorOrder, an affiliation string gets the next unused integer,
\* from 1, the first time it is met, and every later author with the same
\* string reuses that number; affiliationList lists the distinct strings in
\* first-seen order (Lab1, Lab2, Lab1 gives 1, 2, 1).
C4_AffiliationNumbersFirstSeen ==
    AffiliationsNumbered =>
        /\ Len(affiliation_list) =
              Cardinality({AffiliationAt(j) : j \in 1..Len(author_order)})
        /\ \A i \in 1..Len(author_order) :
              /\ author_to_affil_num_list_dict[author_order[i]] = <<FirstSeenRank(i)>>
              /\ affiliation_list[FirstSeenRank(i)] = AffiliationAt(i)
              /\ affil_str_to_affil_num_dict[AffiliationAt(i)] = FirstSeenRank(i)

\* authors at positions 1, 2, 3 with affiliations Lab1, Lab2, Lab1 were
\* numbered 1, 2, 1
C4_Witness ==
    /\ AffiliationsNumbered
    /\ Len(author_order) = 3
    /\ [i \in 1..3 |-> AffiliationAt(i)] = <<"Lab1", "Lab2", "Lab1">>
    /\ [i \in 1..3 |-> author_to_affil_num_list_dict[author_order[i]]]
          = << <<1>>, <<2>>, <<1>> >>
    /\ affiliation_list = <<"Lab1", "Lab2">>

\* C5: for every number n in [1, len(affiliationList)],
\* affil_str_to_affil_num_dict[affil_num_to_affil_str_dict[n]] == n.
C5_NumberStringNumberRoundTrip ==
    AffiliationsNumbered =>
        \A n \in 1..Len(affiliation_list) :
            /\ n \in DOMAIN affil_num_to_affil_str_dict
            /\ affil_num_to_affil_str_dict[n] \in DOMAIN affil_str_to_affil_num_dict
            /\ affil_str_to_affil_num_dict[affil_num_to_affil_str_dict[n]] = n

\* two numbers were given and an author reused the first of them
C5_Witness ==
    /\ AffiliationsNumbered
    /\ Len(affiliation_list) = 2
    /\ Len(author_order) = 3
    /\ author_to_affil_num_list_dict[author_order[3]] = <<1>>

\* C6 as claimed: when an author of AuthorOrder has no entry in the master
\* table or an empty affiliation cell, the numbering does not raise, that
\* author's list of affiliation numbers is empty and the numbering goes on.
C6_MissingAffiliationClaim ==
    /\ ~(pc = "aborted" /\ error.where = "_make_affiliations_dicts")
    /\ AffiliationsNumbered =>
          \A a \in Range(author_order) :
              (a \notin DOMAIN author_info_df
                  \/ author_info_df[a].affiliation = NaNStr)
                  => GetList(author_to_affil_num_list_dict, a) = <<>>

(***************************************************************************)
(* Properties of the whole run (checked under Spec).                       *)
(***************************************************************************)
\* the data file paths of the command line that are not on disk
MissingPaths == SelectSeq(args.data_file_paths, LAMBDA p : p \notin disk)

\* the run is past _setup_submission_vars
SetupOver == pc \notin {"start", "setup_submission_vars"}

\* the run ended in _get_and_check_datafile_paths, naming every missing path,
\* and no remote call was made
FailedOnMissingPaths ==
    /\ pc = "aborted"
    /\ error = [type |-> "FileNotFoundError",
                where |-> "_get_and_check_datafile_paths",
                files |-> MissingPaths]
    /\ requests = <<>>

\* C7 as claimed: in a submission run with a data file path that is not on
\* disk, the run fails with a file-not-found error naming every missing path,
\* before any remote call.
C7_MissingPathsClaim ==
    (args.submission /\ MissingPaths # <<>> /\ SetupOver) => FailedOnMissingPaths

\* C7 as amended: the same, for a run whose output directory exists (the
\* directory is checked first, and a run without it ends on RuntimeError).
C7_MissingPathsFailFirst ==
    (/\ args.submission
     /\ args.output_dir_path \in ExistingDirs
     /\ MissingPaths # <<>>
     /\ SetupOver) => FailedOnMissingPaths

\* two paths were given, both are missing and both are named
C7_Witness ==
    /\ args.submission
    /\ args.data_file_paths = <<PathA, PathB>>
    /\ disk = {}
    /\ FailedOnMissingPaths
    /\ error.files = <<PathA, PathB>>

\* the calls issued so far: method and URL
Calls == [i \in 1..Len(requests) |-> <<requests[i].method, requests[i].url>>]

\* the calls of a complete submission of the paths of the command line: the
\* create, one upload per path to bucket_url/<last component>, the metadata
ExpectedCalls ==
    << <<"POST", <<"https://zenodo.org/api/deposit/depositions">> >> >>
    \o [i \in 1..Len(args.data_file_paths) |->
          <<"PUT", <<deposition.bucket_url, "/",
                     args.data_file_paths[i][Len(args.data_file_paths[i])]>> >>]
    \o << <<"PUT", <<"https://zenodo.org/api/deposit/depositions", "/",
                     deposition.deposition_id>> >> >>

IsPrefix(a, b) == Len(a) <= Len(b) /\ \A i \in 1..Len(a) : a[i] = b[i]

C9_FailedCallIsFatalClaim ==
    \A i \in 1..Len(requests) :
        ~requests[i].ok => (i = Len(requests) /\ pc = "aborted" /\ ~reported)

\* two rows of the table have the same last name and first initial
HasDuplicateKey(rows) ==
    \E i, j \in 1..Len(rows) :
        /\ i # j
        /\ rows[i].last = rows[j].last
        /\ rows[i].first[1] = rows[j].first[1]

\* C10: when two rows of the master table, or two rows of the membership table
\* that pass the sum > 0 filter, have the same author key, the run has ended
\* on an error, no author order was computed, no output file written and no
\* remote call made.
C10_DuplicateKeysAbort ==
    (\/ HasDuplicateKey(DropNaTemplate(template_rows))
     \/ HasDuplicateKey(FilteredRows(sheet_rows)))
        => /\ pc = "aborted"
           /\ error.type = "AssertionError"
           /\ author_order_list = <<>>
           /\ author_order = <<>>
           /\ files_written = <<>>
           /\ requests = <<>>

\* a submission run has ended on two membership rows with the key SmithJ
C10_Witness ==
    /\ args.submission
    /\ HasDuplicateKey(FilteredRows(sheet_rows))
    /\ Len(template_rows) = 2
    /\ pc = "aborted"


(***************************************************************************)
(* Properties of the creator array (checked under SpecAffil).              *)
(***************************************************************************)
\* _make_creator_array has returned self.creator_array
CreatorArrayMade ==
    \/ pc \in {"output_author_info", "skip_submission", "do_zenodo_submission",
               "upload_files", "associate_meta_data", "done"}
    \/ /\ pc = "aborted"
       /\ error.where \in {"_create_blank_deposition", "do_zenodo_submission"}

\* the master row of the author at position i of AuthorOrder
MasterRowAt(i) == author_info_df[author_order[i]]

\* C11: the creator array has one entry per author of AuthorOrder, in the
\* sequence of AuthorOrder; every entry has name = "<last name>, <first name>",
\* an affiliation field exactly when the affiliation is not "not-provided" and
\* an orcid field exactly when the ORCID is not "not-provided", each field with
\* the value of the master row.
C11_CreatorArrayFollowsAuthorOrder ==
    CreatorArrayMade =>
        /\ Len(creator_array) = Len(author_order)
        /\ \A i \in 1..Len(author_order) :
              LET entry == creator_array[i]
                  row == MasterRowAt(i)
              IN /\ "name" \in DOMAIN entry
                 /\ entry["name"] = row.last \o ", " \o FirstName(row.first)
                 /\ DOMAIN entry \subseteq {"name", "affiliation", "orcid"}
                 /\ "affiliation" \in DOMAIN entry
                       <=> row.affiliation # "not-provided"
                 /\ "affiliation" \in DOMAIN entry
                       => entry["affiliation"] = row.affiliation
                 /\ "orcid" \in DOMAIN entry <=> row.ORCID # "not-provided"
                 /\ "orcid" \in DOMAIN entry => entry["orcid"] = row.ORCID

\* Doe, Alice before Smith, John: the first entry has an affiliation and no
\* orcid, the second an orcid and no affiliation
C11_Witness ==
    /\ CreatorArrayMade
    /\ Len(creator_array) >= 2
    /\ creator_array[1]["name"] = "Doe, Alice"
    /\ DOMAIN creator_array[1] = {"name", "affiliation"}
    /\ creator_array[1]["affiliation"] = "Lab2"
    /\ creator_array[2]["name"] = "Smith, John"
    /\ DOMAIN creator_array[2] = {"name", "orcid"}


(***************************************************************************)
(* Properties of _superscript (checked under SpecSuperscript).             *)
(***************************************************************************)
\* the superscript glyph of each decimal digit, from 0 to 9
SupGlyphs ==
    <<"superscript-0", "superscript-1", "superscript-2", "superscript-3",
      "superscript-4", "superscript-5", "superscript-6", "superscript-7",
      "superscript-8", "superscript-9">>

\* 10^k
RECURSIVE TenTo(_)
TenTo(k) == IF k = 0 THEN 1 ELSE 10 * TenTo(k - 1)

\* the number of decimal digits of n >= 1
DecimalLength(n) == CHOOSE k \in 1..10 : TenTo(k - 1) <= n /\ n < TenTo(k)

\* the i-th decimal digit of n, from the left
DecimalDigit(n, i) == (n \div TenTo(DecimalLength(n) - i)) % 10

\* a call of _superscript has returned
SuperscriptReturned == pc = "superscript" /\ affil_num >= 1

\* C12: for every number n >= 1 the text returned by _superscript has as many
\* characters as the decimal representation of n, and its i-th character is the
\* superscript of the i-th decimal digit of n, whatever the calls made before;
\* 12 gives superscript-1 superscript-2 and 7 gives superscript-7.
C12_SuperscriptIsDigitWise ==
    SuperscriptReturned =>
        /\ Len(sup_num) = DecimalLength(affil_num)
        /\ \A i \in 1..Len(sup_num) :
              sup_num[i] = SupGlyphs[DecimalDigit(affil_num, i) + 1]
        /\ affil_num = 12 => sup_num = <<"superscript-1", "superscript-2">>
        /\ affil_num = 7 => sup_num = <<"superscript-7">>

\* the call on 12 has returned its two glyphs
C12_Witness ==
    /\ SuperscriptReturned
    /\ affil_num = 12
    /\ sup_num = <<"superscript-1", "superscript-2">>


(***************************************************************************)
(* The structure of a returned order (checked under SpecOrder).            *)
(***************************************************************************)
\* the row of the author in the filtered membership table
RowOf(a) == CHOOSE i \in 1..Len(df) : df[i].key = a

\* the category pass that places the author, from the weights of the row
PlacedPass(a) ==
    IF InOverride(df, a) THEN FirstOverride(df, a) ELSE FirstOrdinary(df, a)

\* the authors the 'Contributing authors list #3' pass places
PlacedInContrib3(a) ==
    /\ At(df, a, "Scientific Directors") = 0
    /\ At(df, a, "Contributing authors list #3") > 0

\* the author has a positive weight in both override categories
InBothOverrides(a) ==
    /\ At(df, a, "Scientific Directors") > 0
    /\ At(df, a, "Contributing authors list #3") > 0

\* C13: in a returned AuthorOrder every author whose override weights are
\* both 0 comes before every author with a positive override weight; authors
\* placed by the same category pass stand in the row order of the membership
\* table; and an author with positive weights in both 'Scientific Directors'
\* and 'Contributing authors list #3' stands among the authors of the
\* 'Scientific Directors' pass, before every author of the 'Contributing
\* authors list #3' pass.
C13_ReturnedOrderStructure ==
    OrderReturned =>
        \A m, n \in 1..Len(author_order) :
            m < n =>
                LET a == author_order[m]
                    b == author_order[n]
                IN /\ ~(InOverride(df, a) /\ ~InOverride(df, b))
                   /\ PlacedPass(a) = PlacedPass(b) => RowOf(a) < RowOf(b)
                   /\ (\/ InBothOverrides(a) /\ At(df, b, "Scientific Directors") > 0
                       \/ InBothOverrides(b) /\ At(df, a, "Scientific Directors") > 0)
                         => RowOf(a) < RowOf(b)
                   /\ ~(PlacedInContrib3(a) /\ InBothOverrides(b))

\* rows: an author of 'Contributing authors list #3' alone, an author of both
\* override categories, a first author; the order returned is the reverse
C13_Witness ==
    /\ OrderReturned
    /\ Len(df) = 3
    /\ PlacedInContrib3(df[1].key)
    /\ At(df, df[2].key, "Scientific Directors") > 0
    /\ At(df, df[2].key, "Contributing authors list #3") > 0
    /\ ~InOverride(df, df[3].key)
    /\ author_order = <<df[3].key, df[2].key, df[1].key>>


(***************************************************************************)
(* Output files and remote calls (checked under Spec).                     *)
(***************************************************************************)
\* the names of the four output files, in the order they are written
OutputFileNames ==
    <<"author_string_w_o_affiliation_numbers.txt",
      "author_string_w_affiliation_numbers.txt",
      "affiliations_one_line.txt", "affiliations_new_lines.txt">>

\* the four output files have been written
FourFilesWritten ==
    [i \in 1..Len(files_written) |-> files_written[i].name] = OutputFileNames

\* the run ended while loading the tables, ordering the authors or numbering
\* the affiliations
AbortedInTables ==
    /\ pc = "aborted"
    /\ error.where \in {"_make_author_info_df", "_make_author_order: name_index",
                        "_make_author_order: author_order_list",
                        "_make_affiliations_dicts"}

\* C14: a remote call has been issued only when --submission was passed and
\* the four output files were written before it; a run without --submission
\* that reaches its end has written the four files and made no remote call; a
\* run that ended while loading the tables, ordering the authors or numbering
\* the affiliations has made no remote call.
C14_FilesBeforeRemoteCalls ==
    /\ requests # <<>> => (args.submission /\ FourFilesWritten)
    /\ pc \in {"do_zenodo_submission", "upload_files", "associate_meta_data"}
          => FourFilesWritten
    /\ ~args.submission => requests = <<>>
    /\ (pc = "done" /\ ~args.submission) => FourFilesWritten
    /\ AbortedInTables => (requests = <<>> /\ files_written = <<>>)

\* the first remote call of a submission has just been issued, the four files
\* being written
C14_Witness ==
    /\ args.submission
    /\ Len(requests) = 1
    /\ requests[1].method = "POST"
    /\ FourFilesWritten
    /\ author_order # <<>>


====
